---- MODULE Spec2Model ----
(***************************************************************************)
(* Workflow validation and safe execution engine of workflow-builder:      *)
(*   backend/app/workflow/validator.py      (validate_workflow)            *)
(*   backend/app/workflow/executor_safe.py  (execute_workflow_safe,        *)
(*                                           _safe_run_node, semaphore)    *)
(* A workflow definition is a record of a node list and an edge list.      *)
(* Python dicts keep insertion order, so dict iteration is modelled by     *)
(* sequences in node-list order.                                           *)
(***************************************************************************)
EXTENDS Integers, Sequences, FiniteSets, TLC

(***************************************************************************)
(* Bounds of the model.                                                    *)
(***************************************************************************)
MaxNodes == 3
MaxEdges == 3
MaxBadNodes == 2
MaxBadEdges == 1
MaxTwiceNodes == 3
MaxTwiceEdges == 2
MaxSuppliedNodes == 2
MaxSuppliedEdges == 1

(***************************************************************************)
(* Program constants.                                                      *)
(***************************************************************************)
NODE_TYPES == {"user_query", "knowledge_base", "llm_engine", "output"}
MAX_NODES == 50
MAX_EDGES == 200
LLM_CONCURRENCY_LIMIT == 4
COMPONENT_MAP_KEYS == {"user_query", "knowledge_base", "llm_engine", "output"}

(***************************************************************************)
(* Generic helpers on sequences and mappings.                              *)
(***************************************************************************)
Range(s) == {s[i] : i \in DOMAIN s}

SeqsUpTo(S, n) == UNION {[1..k -> S] : k \in 0..n}

\* dict.update: the keys of b override those of a
DictUpdate(a, b) ==
  [k \in (DOMAIN a) \cup (DOMAIN b) |-> IF k \in DOMAIN b THEN b[k] ELSE a[k]]

EmptyDict == [k \in {} |-> ""]

(***************************************************************************)
(* Values a submitted definition may take.  NoId stands for a missing,     *)
(* empty or non-string id; "ghost" is a string that names no node;         *)
(* "bogus" is a type outside NODE_TYPES.                                   *)
(* "unhashable" is a type that is a list or an object.                     *)
(***************************************************************************)
AllIds == <<"a", "b", "c", "d", "e">>
NoId == ""
GhostId == "ghost"
BogusType == "bogus"
\* a type that is a JSON array or object: a value Python cannot hash
UnhashableType == "unhashable"

IdsUpTo(n) == {AllIds[i] : i \in 1..n}

MkNode(i, t) == [isDict |-> TRUE, id |-> i, type |-> t, configIsDict |-> TRUE]
MkEdge(f, t) == [isDict |-> TRUE, from |-> f, to |-> t]
MkWorkflow(ns, es) ==
  [isDict |-> TRUE, hasNodes |-> TRUE, hasEdges |-> TRUE, nodes |-> ns, edges |-> es]

ErrorItem(f, m) == [field |-> f, message |-> m]

(***************************************************************************)
(* validator.py: validate_shape                                            *)
(***************************************************************************)
validate_shape(workflow) ==
  IF ~workflow.isDict
    THEN <<ErrorItem(<<"workflow">>, <<"Workflow must be a JSON object">>)>>
    ELSE (IF ~workflow.hasNodes
            THEN <<ErrorItem(<<"nodes">>, <<"Missing 'nodes' list">>)>>
            ELSE <<>>)
         \o
         (IF ~workflow.hasEdges
            THEN <<ErrorItem(<<"edges">>, <<"Missing 'edges' list">>)>>
            ELSE <<>>)

(***************************************************************************)
(* validator.py: validate_nodes_and_edges                                  *)
(* NodeErrors(n, idx, ids): the items one iteration of the node loop       *)
(* appends (idx is the Python index, from 0); ids is the set collected so  *)
(* far.                                                                    *)
(***************************************************************************)
NodeErrors(n, idx, ids) ==
  IF ~n.isDict
    THEN <<ErrorItem(<<"nodes", ToString(idx)>>, <<"Node must be an object">>)>>
    ELSE (IF n.id = NoId
            THEN <<ErrorItem(<<"nodes", ToString(idx), "id">>, <<"Node must have a string 'id'">>)>>
            ELSE IF n.id \in ids
                   THEN <<ErrorItem(<<"nodes", ToString(idx), "id">>, <<"Duplicate node id", n.id>>)>>
                   ELSE <<>>)
         \o
         (IF n.type \notin NODE_TYPES
            THEN <<ErrorItem(<<"nodes", ToString(idx), "type">>, <<"Invalid or missing node type", n.type>>)>>
            ELSE <<>>)
         \o
         (IF ~n.configIsDict
            THEN <<ErrorItem(<<"nodes", ToString(idx), "config">>, <<"Config must be an object">>)>>
            ELSE <<>>)

NodeIdsAfter(n, ids) ==
  IF n.isDict /\ n.id # NoId THEN ids \cup {n.id} ELSE ids

RECURSIVE NodeLoop(_, _, _, _)
\* returns [errors, ids] after iterating nodes[i..]
NodeLoop(nodes, i, ids, errors) ==
  IF i > Len(nodes)
    THEN [errors |-> errors, ids |-> ids]
    ELSE NodeLoop(nodes, i + 1, NodeIdsAfter(nodes[i], ids),
                  errors \o NodeErrors(nodes[i], i - 1, ids))

EndpointErrors(v, idx, which, node_ids) ==
  IF v = NoId
    THEN <<ErrorItem(<<"edges", ToString(idx), which>>, <<"Missing/invalid", which>>)>>
    ELSE IF v \notin node_ids
           THEN <<ErrorItem(<<"edges", ToString(idx), which>>, <<"Unknown node id", v>>)>>
           ELSE <<>>

EdgeErrors(e, idx, node_ids) ==
  IF ~e.isDict
    THEN <<ErrorItem(<<"edges", ToString(idx)>>, <<"Edge must be an object with 'from' and 'to'">>)>>
    ELSE EndpointErrors(e.from, idx, "from", node_ids)
         \o EndpointErrors(e.to, idx, "to", node_ids)

RECURSIVE EdgeLoop(_, _, _, _)
EdgeLoop(edges, i, node_ids, errors) ==
  IF i > Len(edges)
    THEN errors
    ELSE EdgeLoop(edges, i + 1, node_ids, errors \o EdgeErrors(edges[i], i - 1, node_ids))

validate_nodes_and_edges(workflow) ==
  LET nodes == workflow.nodes
      edges == workflow.edges
      limits == (IF Len(nodes) > MAX_NODES
                   THEN <<ErrorItem(<<"nodes">>, <<"Too many nodes", ToString(MAX_NODES)>>)>>
                   ELSE <<>>)
                \o
                (IF Len(edges) > MAX_EDGES
                   THEN <<ErrorItem(<<"edges">>, <<"Too many edges", ToString(MAX_EDGES)>>)>>
                   ELSE <<>>)
      afterNodes == NodeLoop(nodes, 1, {}, limits)
  IN  EdgeLoop(edges, 1, afterNodes.ids, afterNodes.errors)

\* line 69: `ntype not in NODE_TYPES` hashes ntype, and raises TypeError when
\* ntype is a list or an object; the error list built so far is lost
RaisesTypeError(workflow) ==
  /\ validate_shape(workflow) = <<>>
  /\ \E i \in DOMAIN workflow.nodes :
       workflow.nodes[i].isDict /\ workflow.nodes[i].type = UnhashableType

(***************************************************************************)
(* validator.py: detect_cycles_and_toposort (Kahn's algorithm)             *)
(***************************************************************************)
\* node_ids = [n["id"] for n in nodes]
NodeIdList(workflow) == [i \in 1..Len(workflow.nodes) |-> workflow.nodes[i].id]

\* number of edges whose "to" is nid
RECURSIVE CountIncoming(_, _, _)
CountIncoming(edges, i, nid) ==
  IF i > Len(edges) THEN 0
  ELSE (IF edges[i].to = nid THEN 1 ELSE 0) + CountIncoming(edges, i + 1, nid)

\* adj[nid]: the targets of nid's outgoing edges, in edge-list order
RECURSIVE AdjList(_, _, _)
AdjList(edges, i, nid) ==
  IF i > Len(edges) THEN <<>>
  ELSE (IF edges[i].from = nid THEN <<edges[i].to>> ELSE <<>>) \o AdjList(edges, i + 1, nid)

\* [nid for nid in node_ids if incoming[nid] == 0]
RECURSIVE ZeroIncoming(_, _, _)
ZeroIncoming(node_ids, i, incoming) ==
  IF i > Len(node_ids) THEN <<>>
  ELSE (IF incoming[node_ids[i]] = 0 THEN <<node_ids[i]>> ELSE <<>>)
       \o ZeroIncoming(node_ids, i + 1, incoming)

\* for m in adj[n]: incoming[m] -= 1; if incoming[m] == 0: queue.append(m)
RECURSIVE VisitSuccessors(_, _, _, _)
VisitSuccessors(succ, i, incoming, queue) ==
  IF i > Len(succ)
    THEN [incoming |-> incoming, queue |-> queue]
    ELSE LET m == succ[i]
             inc1 == [incoming EXCEPT ![m] = @ - 1]
         IN  VisitSuccessors(succ, i + 1, inc1,
                             IF inc1[m] = 0 THEN Append(queue, m) ELSE queue)

\* while queue: n = queue.pop(0); topo.append(n); ...
RECURSIVE KahnLoop(_, _, _, _)
KahnLoop(queue, topo, incoming, adj) ==
  IF queue = <<>>
    THEN topo
    ELSE LET n == Head(queue)
             v == VisitSuccessors(adj[n], 1, incoming, Tail(queue))
         IN  KahnLoop(v.queue, Append(topo, n), v.incoming, adj)

CycleError == ErrorItem(<<"workflow">>, <<"Cycle detected in workflow (graph is not a DAG)">>)

\* a check that sees a cycle only when no node at all could be ordered
DetectCyclesWhenEmpty(workflow) ==
  LET node_ids == NodeIdList(workflow)
      idset == Range(node_ids)
      incoming == [nid \in idset |-> CountIncoming(workflow.edges, 1, nid)]
      adj == [nid \in idset |-> AdjList(workflow.edges, 1, nid)]
      topo == KahnLoop(ZeroIncoming(node_ids, 1, incoming), <<>>, incoming, adj)
  IN  [topo |-> topo,
       errors |-> IF Len(topo) = 0 /\ Len(node_ids) # 0 THEN <<CycleError>> ELSE <<>>]

detect_cycles_and_toposort(workflow) ==
  LET node_ids == NodeIdList(workflow)
      idset == Range(node_ids)
      incoming == [nid \in idset |-> CountIncoming(workflow.edges, 1, nid)]
      adj == [nid \in idset |-> AdjList(workflow.edges, 1, nid)]
      topo == KahnLoop(ZeroIncoming(node_ids, 1, incoming), <<>>, incoming, adj)
  IN  [topo |-> topo,
       errors |-> IF Len(topo) # Len(node_ids) THEN <<CycleError>> ELSE <<>>]

(***************************************************************************)
(* validator.py: validate_workflow, graph phase                            *)
(***************************************************************************)
\* [nid for nid, t in types_by_id.items() if t == ty], ids being unique here
RECURSIVE NodesOfType(_, _, _)
NodesOfType(nodes, i, ty) ==
  IF i > Len(nodes) THEN <<>>
  ELSE (IF nodes[i].type = ty THEN <<nodes[i].id>> ELSE <<>>) \o NodesOfType(nodes, i + 1, ty)

\* a traversal that takes every node for reached
ReachEverything(stack, reachable, adj) == DOMAIN adj

\* a traversal that never follows an edge
ReachStartOnly(stack, reachable, adj) == reachable \cup Range(stack)

\* the traversal from start: stack.pop() takes the last element
RECURSIVE ReachLoop(_, _, _)
ReachLoop(stack, reachable, adj) ==
  IF stack = <<>>
    THEN reachable
    ELSE LET cur == stack[Len(stack)]
             rest == SubSeq(stack, 1, Len(stack) - 1)
         IN  IF cur \in reachable
               THEN ReachLoop(rest, reachable, adj)
               ELSE LET r1 == reachable \cup {cur}
                        push == SelectSeq(adj[cur], LAMBDA nb : nb \notin r1)
                    IN  ReachLoop(rest \o push, r1, adj)

UserQueryCountError ==
  ErrorItem(<<"user_query">>, <<"Workflow must contain exactly one 'user_query' node">>)
OutputCountError ==
  ErrorItem(<<"output">>, <<"Workflow must contain at least one 'output' node">>)
\* the position of nid in AllIds
IdRank(nid) == CHOOSE k \in DOMAIN AllIds : AllIds[k] = nid

\* list(S) for a set S of strings: the iteration order follows the strings'
\* hashes, which the interpreter salts per process (hash randomization).
\* Two of the orders a process may have: seed 1 lists the ids in the order
\* of AllIds, seed 2 in the reverse order.
RECURSIVE ListOfSet(_, _)
ListOfSet(S, seed) ==
  IF S = {} THEN <<>>
  ELSE LET x == CHOOSE y \in S :
                  \A z \in S : IF seed = 1 THEN IdRank(y) <= IdRank(z)
                                            ELSE IdRank(y) >= IdRank(z)
       IN  <<x>> \o ListOfSet(S \ {x}, seed)

\* f"Unreachable nodes from user_query: {list(unreachable)}"
UnreachableError(unreachable, seed) ==
  ErrorItem(<<"connectivity">>,
            <<"Unreachable nodes from user_query">> \o ListOfSet(unreachable, seed))

\* a graph phase that stops at its first violation
GraphPhaseFailFast(workflow, seed) ==
  LET nodes == workflow.nodes
      idset == Range(NodeIdList(workflow))
      user_query_nodes == NodesOfType(nodes, 1, "user_query")
      output_nodes == NodesOfType(nodes, 1, "output")
      adj == [nid \in idset |-> AdjList(workflow.edges, 1, nid)]
      unreachable == IF user_query_nodes # <<>>
                       THEN idset \ ReachLoop(<<user_query_nodes[1]>>, {}, adj)
                       ELSE {}
  IN  IF Len(user_query_nodes) # 1 THEN <<UserQueryCountError>>
      ELSE IF Len(output_nodes) < 1 THEN <<OutputCountError>>
      ELSE IF unreachable # {} THEN <<UnreachableError(unreachable, seed)>>
      ELSE detect_cycles_and_toposort(workflow).errors

\* a graph phase without the connectivity check
GraphPhaseWithoutConnectivity(workflow, seed) ==
  LET nodes == workflow.nodes
      user_query_nodes == NodesOfType(nodes, 1, "user_query")
      output_nodes == NodesOfType(nodes, 1, "output")
  IN  (IF Len(user_query_nodes) # 1 THEN <<UserQueryCountError>> ELSE <<>>)
      \o (IF Len(output_nodes) < 1 THEN <<OutputCountError>> ELSE <<>>)
      \o detect_cycles_and_toposort(workflow).errors

GraphPhaseErrors(workflow, seed) ==
  LET nodes == workflow.nodes
      idset == Range(NodeIdList(workflow))
      user_query_nodes == NodesOfType(nodes, 1, "user_query")
      output_nodes == NodesOfType(nodes, 1, "output")
      adj == [nid \in idset |-> AdjList(workflow.edges, 1, nid)]
      unreachable == IF user_query_nodes # <<>>
                       THEN idset \ ReachLoop(<<user_query_nodes[1]>>, {}, adj)
                       ELSE {}
  IN  (IF Len(user_query_nodes) # 1 THEN <<UserQueryCountError>> ELSE <<>>)
      \o (IF Len(output_nodes) < 1 THEN <<OutputCountError>> ELSE <<>>)
      \o (IF unreachable # {} THEN <<UnreachableError(unreachable, seed)>> ELSE <<>>)
      \o detect_cycles_and_toposort(workflow).errors

\* a validation without the graph phase
validate_workflowWithoutGraphPhase(workflow, seed) ==
  IF validate_shape(workflow) # <<>>
    THEN validate_shape(workflow)
    ELSE validate_nodes_and_edges(workflow)

\* the error list of the WorkflowValidationError raised, <<>> when it returns
\* (for a definition on which RaisesTypeError is false); seed is the hash
\* seed of the process the validation runs in
validate_workflow(workflow, seed) ==
  IF validate_shape(workflow) # <<>>
    THEN validate_shape(workflow)
    ELSE IF validate_nodes_and_edges(workflow) # <<>>
           THEN validate_nodes_and_edges(workflow)
           ELSE GraphPhaseErrors(workflow, seed)

(***************************************************************************)
(* executor_safe.py: execute_workflow_safe, lines 90-114: the adjacency,   *)
(* the reverse adjacency and the scheduler order the Engine recomputes.    *)
(***************************************************************************)
\* nodes_meta keys, in insertion order (ids are unique after validation)
MetaIds(workflow) == [i \in 1..Len(workflow.nodes) |-> workflow.nodes[i].id]

NodeType(workflow, nid) ==
  LET i == CHOOSE k \in 1..Len(workflow.nodes) : workflow.nodes[k].id = nid
  IN  workflow.nodes[i].type

\* adj[nid]
RECURSIVE ExecAdj(_, _, _)
ExecAdj(edges, i, nid) ==
  IF i > Len(edges) THEN <<>>
  ELSE (IF edges[i].from = nid THEN <<edges[i].to>> ELSE <<>>) \o ExecAdj(edges, i + 1, nid)

\* parents[nid]: the sources of the edges into nid, in edge-list order
RECURSIVE ExecParents(_, _, _)
ExecParents(edges, i, nid) ==
  IF i > Len(edges) THEN <<>>
  ELSE (IF edges[i].to = nid THEN <<edges[i].from>> ELSE <<>>) \o ExecParents(edges, i + 1, nid)

\* a ready queue that starts with every node
ExecReadyEveryNode(ids, i, incoming) == ids

\* queue = [nid for nid, c in incoming.items() if c == 0]
RECURSIVE ExecReady(_, _, _)
ExecReady(ids, i, incoming) ==
  IF i > Len(ids) THEN <<>>
  ELSE (IF incoming[ids[i]] = 0 THEN <<ids[i]>> ELSE <<>>) \o ExecReady(ids, i + 1, incoming)

RECURSIVE ExecRelax(_, _, _, _)
ExecRelax(succ, i, incoming, queue) ==
  IF i > Len(succ)
    THEN [incoming |-> incoming, queue |-> queue]
    ELSE LET m == succ[i]
             inc1 == [incoming EXCEPT ![m] = @ - 1]
         IN  ExecRelax(succ, i + 1, inc1, IF inc1[m] = 0 THEN Append(queue, m) ELSE queue)

\* a scheduler that takes the node that became ready last
RECURSIVE ExecKahnLIFO(_, _, _, _)
ExecKahnLIFO(queue, topo, incoming, adj) ==
  IF queue = <<>>
    THEN topo
    ELSE LET n == queue[Len(queue)]
             v == ExecRelax(adj[n], 1, incoming, SubSeq(queue, 1, Len(queue) - 1))
         IN  ExecKahnLIFO(v.queue, Append(topo, n), v.incoming, adj)

RECURSIVE ExecKahn(_, _, _, _)
ExecKahn(queue, topo, incoming, adj) ==
  IF queue = <<>>
    THEN topo
    ELSE LET n == Head(queue)
             v == ExecRelax(adj[n], 1, incoming, Tail(queue))
         IN  ExecKahn(v.queue, Append(topo, n), v.incoming, adj)

ExecTopo(workflow) ==
  LET ids == MetaIds(workflow)
      idset == Range(ids)
      adj == [nid \in idset |-> ExecAdj(workflow.edges, 1, nid)]
      incoming == [nid \in idset |-> Len(ExecParents(workflow.edges, 1, nid))]
  IN  ExecKahn(ExecReady(ids, 1, incoming), <<>>, incoming, adj)

\* user_nodes = [nid for nid, meta in nodes_meta.items() if meta["type"] == "user_query"]
RECURSIVE MetaOfType(_, _, _)
MetaOfType(nodes, i, ty) ==
  IF i > Len(nodes) THEN <<>>
  ELSE (IF nodes[i].type = ty THEN <<nodes[i].id>> ELSE <<>>) \o MetaOfType(nodes, i + 1, ty)

(***************************************************************************)
(* executor_safe.py lines 137-145: input assembly.                         *)
(***************************************************************************)
\* context_map.get(p, {}) or {}
ContextGet(context_map, p) ==
  IF p \in DOMAIN context_map THEN context_map[p] ELSE EmptyDict

\* a merge in which the first predecessor to supply a key keeps it
RECURSIVE MergeParentsFirstWins(_, _, _, _)
MergeParentsFirstWins(ps, i, context_map, inputs) ==
  IF i > Len(ps) THEN inputs
  ELSE MergeParentsFirstWins(ps, i + 1, context_map,
                             DictUpdate(ContextGet(context_map, ps[i]), inputs))

\* for p in parents[node_id]: inputs.update(parent_out)
RECURSIVE MergeParents(_, _, _, _)
MergeParents(ps, i, context_map, inputs) ==
  IF i > Len(ps) THEN inputs
  ELSE MergeParents(ps, i + 1, context_map, DictUpdate(inputs, ContextGet(context_map, ps[i])))

\* an assembly that forgets the initial context of a node without parents
AssembleWithoutInitial(workflow, node_id, context_map) ==
  MergeParents(ExecParents(workflow.edges, 1, node_id), 1, context_map, EmptyDict)

AssembleInputs(workflow, node_id, context_map) ==
  LET ps == ExecParents(workflow.edges, 1, node_id)
  IN  IF ps # <<>>
        THEN MergeParents(ps, 1, context_map, EmptyDict)
        ELSE ContextGet(context_map, node_id)

(***************************************************************************)
(* State.                                                                  *)
(*   wf            the definition submitted (read-only during the runs)    *)
(*   user_query    the initial query                                       *)
(*   capabilities  what the class bound to each node does: the outcomes    *)
(*                 its constructor may have (node_cls(id=..., config=...)) *)
(*                 and the outcomes of its run(inputs)                     *)
(*   sem           the value of _llm_semaphore                             *)
(*   runs          the local state of each call of execute_workflow_safe;  *)
(*                 created, invoked and returned record the constructor    *)
(*                 calls, the run(inputs) calls and the payloads returned  *)
(*   responses     what the /run handler has answered, for the calls whose *)
(*                 handler is followed to its end                          *)
(*   chatlogs      the ChatLog rows committed to the database              *)
(***************************************************************************)
VARIABLES wf, user_query, capabilities, sem, runs, responses, chatlogs

vars == <<wf, user_query, capabilities, sem, runs, responses, chatlogs>>

RunIds == DOMAIN runs

MsgSemaphore == "Could not acquire LLM semaphore (too many concurrent LLM calls)"
MsgTimeout == "Node execution timed out"
MsgNotDict == "Node did not return a dict"
MsgCapability == "capability error"
MsgNoUserQuery == "No user_query node found"
MsgUnhashable == "unhashable type"
MsgConstructor == "constructor error"

NoResult == [kind |-> "none"]

\* a call of execute_workflow_safe that has not started
IdleRun ==
  [pc |-> "idle", topo |-> <<>>, idx |-> 0, context_map |-> EmptyDict,
   trace |-> <<>>, inputs |-> EmptyDict, created |-> <<>>, invoked |-> <<>>,
   result |-> NoResult, hashseed |-> 1, returned |-> <<>>]

\* the node the run is at
CurrentNode(st) == st.topo[st.idx]

\* is_llm = isinstance(node_obj, LLMEngineComponent)
IsLLM(workflow, nid) == NodeType(workflow, nid) = "llm_engine"

(***************************************************************************)
(* threading.Semaphore: acquire(timeout) takes a permit when the value is  *)
(* positive and gives up (returns False) only on seeing it zero; release   *)
(* adds one.                                                               *)
(***************************************************************************)
\* a wait that also succeeds on an empty pool
CanAcquireOffByOne(s) == s >= 0
CanAcquire(s) == s > 0
SemAcquire(s) == s - 1
SemRelease(s) == s + 1

\* a finally clause that forgets the permit
ReleaseNever(workflow, nid, s) == s
\* the finally clause of _safe_run_node
ReleaseIfLLM(workflow, nid, s) == IF IsLLM(workflow, nid) THEN SemRelease(s) ELSE s

(***************************************************************************)
(* Trace entries (lines 148-170).                                          *)
(***************************************************************************)
NewEntry(workflow, nid) ==
  [node_id |-> nid, node_type |-> NodeType(workflow, nid), started_at |-> "utcnow"]

SuccessEntry(entry, output) ==
  [node_id |-> entry.node_id, node_type |-> entry.node_type,
   started_at |-> entry.started_at, status |-> "success",
   duration_seconds |-> "elapsed", output_keys |-> DOMAIN output]

ErrorEntry(entry, msg) ==
  [node_id |-> entry.node_id, node_type |-> entry.node_type,
   started_at |-> entry.started_at, status |-> "error", error |-> msg]

\* entry.update(...) changes the entry appended last
UpdateLast(trace, entry) == [trace EXCEPT ![Len(trace)] = entry]

\* a handler that invokes the failed node once more instead of returning
FailNodeRetries(workflow, st, msg) ==
  [st EXCEPT !.pc = "call",
             !.invoked = Append(st.invoked,
                                [node_id |-> st.topo[st.idx], inputs |-> st.inputs])]

\* lines 166-178: the except branch of the loop body
FailNode(workflow, st, msg) ==
  [st EXCEPT !.pc = "done",
             !.trace = UpdateLast(st.trace, ErrorEntry(st.trace[Len(st.trace)], msg)),
             !.result = [kind |-> "failure", error |-> "Node execution error",
                         node_id |-> CurrentNode(st),
                         node_type |-> NodeType(workflow, CurrentNode(st)),
                         error_message |-> msg]]

\* a result that finds no output node
FinalResultNoOutputs(workflow, context_map) == EmptyDict

\* lines 180-188: the result after the loop
FinalResult(workflow, context_map) ==
  LET output_nodes == MetaOfType(workflow.nodes, 1, "output")
  IN  IF output_nodes # <<>> THEN ContextGet(context_map, output_nodes[1]) ELSE EmptyDict

\* a lookup that finds no class for the output type
RECURSIVE NextKnownButOutput(_, _, _)
NextKnownButOutput(workflow, topo, i) ==
  IF i > Len(topo) THEN i
  ELSE IF NodeType(workflow, topo[i]) \in COMPONENT_MAP_KEYS \ {"output"} THEN i
  ELSE NextKnownButOutput(workflow, topo, i + 1)

\* lines 131-134: positions whose type has no class are skipped
RECURSIVE NextKnown(_, _, _)
NextKnown(workflow, topo, i) ==
  IF i > Len(topo) THEN i
  ELSE IF NodeType(workflow, topo[i]) \in COMPONENT_MAP_KEYS THEN i
  ELSE NextKnown(workflow, topo, i + 1)

\* ex.submit(_call): the capability starts running with the inputs
Submit(st) ==
  [st EXCEPT !.pc = "call",
             !.invoked = Append(st.invoked, [node_id |-> CurrentNode(st), inputs |-> st.inputs])]

(***************************************************************************)
(* The loop of lines 128-153 from position i on, up to the point where the *)
(* run next blocks (on the semaphore or on the future) or ends.  c is the  *)
(* outcome of the constructor call of line 135.                            *)
(***************************************************************************)
Dispatch(workflow, st, i, c) ==
  LET j == NextKnown(workflow, st.topo, i)
  IN  IF j > Len(st.topo)
        THEN [st EXCEPT !.pc = "done", !.idx = j,
                        !.result = [kind |-> "success",
                                    result |-> FinalResult(workflow, st.context_map)]]
        ELSE LET nid == st.topo[j]
             IN  IF c = "raise"
                   THEN [st EXCEPT !.pc = "done", !.idx = j,
                                   !.result = [kind |-> "exception", node_id |-> nid,
                                               raised |-> MsgConstructor]]
                   ELSE LET at == [st EXCEPT
                                     !.idx = j,
                                     !.created = Append(st.created, nid),
                                     !.inputs = AssembleInputs(workflow, nid, st.context_map),
                                     !.trace = Append(st.trace, NewEntry(workflow, nid))]
                        IN  IF IsLLM(workflow, nid)
                              THEN [at EXCEPT !.pc = "acquire"]
                              ELSE Submit(at)

\* the constructor outcomes possible for the node Dispatch reaches from i
CtorChoices(workflow, st, i) ==
  LET j == NextKnown(workflow, st.topo, i)
  IN  IF j > Len(st.topo) THEN {"ok"} ELSE capabilities[st.topo[j]].ctor

\* lines 66-74 and 157-165: the output recorded for a returned payload
RecordedOutput(payload, nid) ==
  DictUpdate(payload, [k \in {"_exec_duration"} |-> nid])

\* a success branch that does not save the output
NodeSucceededWithoutSaving(st, output) ==
  [st EXCEPT !.trace = UpdateLast(st.trace, SuccessEntry(st.trace[Len(st.trace)], output))]

NodeSucceeded(st, output) ==
  [st EXCEPT !.trace = UpdateLast(st.trace, SuccessEntry(st.trace[Len(st.trace)], output)),
             !.context_map = DictUpdate(st.context_map,
                                        [k \in {CurrentNode(st)} |-> output])]

(***************************************************************************)
(* Actions.  r is a call of execute_workflow_safe.  Each action runs the   *)
(* code from one point where the call blocks to the next.                  *)
(***************************************************************************)
\* lines 82-125, then the loop up to its first blocking point
Begin(r) ==
  /\ runs[r].pc = "idle"
  /\ IF RaisesTypeError(wf)
     THEN runs' = [runs EXCEPT ![r] =
                     [@ EXCEPT !.pc = "done",
                               !.result = [kind |-> "exception", node_id |-> NoId,
                                           raised |-> MsgUnhashable]]]
     ELSE
     LET errors == validate_workflow(wf, runs[r].hashseed)
     IN  IF errors # <<>>
           THEN runs' = [runs EXCEPT ![r] =
                           [@ EXCEPT !.pc = "done",
                                     !.result = [kind |-> "validation_error",
                                                 errors |-> errors]]]
           ELSE LET user_nodes == MetaOfType(wf.nodes, 1, "user_query")
                IN  IF user_nodes = <<>>
                      THEN runs' = [runs EXCEPT ![r] =
                                      [@ EXCEPT !.pc = "done",
                                                !.result = [kind |-> "exception",
                                                            node_id |-> NoId,
                                                            raised |-> MsgNoUserQuery]]]
                      ELSE LET st == [runs[r] EXCEPT
                                        !.topo = ExecTopo(wf),
                                        !.context_map =
                                           [k \in {user_nodes[1]} |->
                                              [q \in {"query"} |-> user_query]]]
                           IN  \E c \in CtorChoices(wf, st, 1) :
                                 runs' = [runs EXCEPT ![r] = Dispatch(wf, st, 1, c)]
  /\ UNCHANGED <<wf, user_query, capabilities, sem, responses, chatlogs>>

\* line 49: a permit is available
AcquirePermit(r) ==
  /\ runs[r].pc = "acquire"
  /\ CanAcquire(sem)
  /\ sem' = SemAcquire(sem)
  /\ runs' = [runs EXCEPT ![r] = Submit(@)]
  /\ UNCHANGED <<wf, user_query, capabilities, responses, chatlogs>>

\* the wait placed inside the try block: the finally clause releases a
\* permit that was never taken
AcquireTimesOutInsideTry(r) ==
  /\ runs[r].pc = "acquire"
  /\ ~CanAcquire(sem)
  /\ sem' = SemRelease(sem)
  /\ runs' = [runs EXCEPT ![r] = FailNode(wf, @, MsgSemaphore)]
  /\ UNCHANGED <<wf, user_query, capabilities, responses, chatlogs>>

\* lines 49-51: the wait bound elapses with no permit available
AcquireTimesOut(r) ==
  /\ runs[r].pc = "acquire"
  /\ ~CanAcquire(sem)
  /\ runs' = [runs EXCEPT ![r] = FailNode(wf, @, MsgSemaphore)]
  /\ UNCHANGED <<wf, user_query, capabilities, sem, responses, chatlogs>>

\* lines 59, 63-74, 156-165: run() returns a dict in time; the loop goes on
NodeReturns(r) ==
  /\ runs[r].pc = "call"
  /\ "return" \in capabilities[CurrentNode(runs[r])].kinds
  /\ \E payload \in capabilities[CurrentNode(runs[r])].payloads :
       LET nid == CurrentNode(runs[r])
           got == [runs[r] EXCEPT !.returned =
                     Append(@, [node_id |-> nid, payload |-> payload])]
           st == NodeSucceeded(got, RecordedOutput(payload, nid))
       IN  /\ sem' = ReleaseIfLLM(wf, nid, sem)
           /\ \E c \in CtorChoices(wf, st, st.idx + 1) :
                runs' = [runs EXCEPT ![r] = Dispatch(wf, st, st.idx + 1, c)]
  /\ UNCHANGED <<wf, user_query, capabilities, responses, chatlogs>>

\* lines 59, 63-71: run() returns something that is no dict
NodeReturnsNonDict(r) ==
  /\ runs[r].pc = "call"
  /\ "nondict" \in capabilities[CurrentNode(runs[r])].kinds
  /\ sem' = ReleaseIfLLM(wf, CurrentNode(runs[r]), sem)
  /\ runs' = [runs EXCEPT ![r] = FailNode(wf, @, MsgNotDict)]
  /\ UNCHANGED <<wf, user_query, capabilities, responses, chatlogs>>

\* lines 59, 63-65: run() raises; future.result re-raises it
NodeRaises(r) ==
  /\ runs[r].pc = "call"
  /\ "raise" \in capabilities[CurrentNode(runs[r])].kinds
  /\ sem' = ReleaseIfLLM(wf, CurrentNode(runs[r]), sem)
  /\ runs' = [runs EXCEPT ![r] = FailNode(wf, @, MsgCapability)]
  /\ UNCHANGED <<wf, user_query, capabilities, responses, chatlogs>>

\* a timeout that abandons the running worker and goes on with the next node
FutureTimesOutGoesOn(r) ==
  /\ runs[r].pc = "call"
  /\ "hang" \in capabilities[CurrentNode(runs[r])].kinds
  /\ \E c \in CtorChoices(wf, runs[r], runs[r].idx + 1) :
       runs' = [runs EXCEPT ![r] = Dispatch(wf, @, runs[r].idx + 1, c)]
  /\ UNCHANGED <<wf, user_query, capabilities, sem, responses, chatlogs>>

\* lines 59-62: future.result(timeout) gives up; the future is running, so
\* cancel() does nothing, and leaving the with block (line 56) calls
\* ThreadPoolExecutor.shutdown(wait=True), which joins the worker thread
FutureTimesOut(r) ==
  /\ runs[r].pc = "call"
  /\ "hang" \in capabilities[CurrentNode(runs[r])].kinds
  /\ runs' = [runs EXCEPT ![r] = [@ EXCEPT !.pc = "join"]]
  /\ UNCHANGED <<wf, user_query, capabilities, sem, responses, chatlogs>>

\* the abandoned run() ends at last: shutdown returns, the finally clause
\* (lines 63-65) releases the permit and the timeout error reaches line 166
WorkerJoined(r) ==
  /\ runs[r].pc = "join"
  /\ sem' = ReleaseIfLLM(wf, CurrentNode(runs[r]), sem)
  /\ runs' = [runs EXCEPT ![r] = FailNode(wf, @, MsgTimeout)]
  /\ UNCHANGED <<wf, user_query, capabilities, responses, chatlogs>>

(***************************************************************************)
(* routes/workflow.py: execute_workflow, the /run handler, after its call  *)
(* of execute_workflow_safe (line 47) has returned or raised.              *)
(***************************************************************************)
NoResponse == [status |-> 0]

\* the steps of the audit (lines 59-71) at which an exception may be raised,
\* and "saved" when none is
AuditOutcomes == {"saved", "dumps_raises", "chatlog_raises", "add_raises",
                  "commit_raises", "refresh_raises"}

\* the row is in the database once db.commit() has returned
Committed(outcome) == outcome \in {"saved", "refresh_raises"}

\* ChatLog(workflow_id=..., question=req.user_query, answer=answer_str)
ChatLogRow(question, result) == [question |-> question, answer |-> [json |-> result]]

Awaited(r) == runs[r].pc = "done" /\ responses[r] = NoResponse

\* a handler whose audit is not guarded: an exception of the audit reaches
\* the handler of line 87
RespondSuccessAuditUnguarded(r) ==
  /\ Awaited(r)
  /\ runs[r].result.kind = "success"
  /\ \E outcome \in AuditOutcomes :
       /\ chatlogs' = IF Committed(outcome)
                        THEN Append(chatlogs, ChatLogRow(user_query, runs[r].result.result))
                        ELSE chatlogs
       /\ responses' = [responses EXCEPT ![r] =
                          IF outcome = "saved"
                            THEN [status |-> 200, result |-> runs[r].result.result,
                                  trace |-> runs[r].trace, audit |-> outcome]
                            ELSE [status |-> 500,
                                  detail |-> <<"Workflow execution failed", outcome>>,
                                  audit |-> outcome]]
  /\ UNCHANGED <<wf, user_query, capabilities, sem, runs>>

\* lines 55-76: the run succeeded; the audit is attempted, any exception it
\* raises is swallowed (line 72), and the result and trace are returned
RespondSuccess(r) ==
  /\ Awaited(r)
  /\ runs[r].result.kind = "success"
  /\ \E outcome \in AuditOutcomes :
       /\ chatlogs' = IF Committed(outcome)
                        THEN Append(chatlogs, ChatLogRow(user_query, runs[r].result.result))
                        ELSE chatlogs
       /\ responses' = [responses EXCEPT ![r] =
                          [status |-> 200, result |-> runs[r].result.result,
                           trace |-> runs[r].trace, audit |-> outcome]]
  /\ UNCHANGED <<wf, user_query, capabilities, sem, runs>>

\* lines 50-52 and 83-85: the Engine returned a Failure
RespondFailure(r) ==
  /\ Awaited(r)
  /\ runs[r].result.kind = "failure"
  /\ responses' = [responses EXCEPT ![r] =
                     [status |-> 500, detail |-> runs[r].result, trace |-> runs[r].trace]]
  /\ UNCHANGED <<wf, user_query, capabilities, sem, runs, chatlogs>>

\* lines 78-81: the validator raised WorkflowValidationError
RespondValidationError(r) ==
  /\ Awaited(r)
  /\ runs[r].result.kind = "validation_error"
  /\ responses' = [responses EXCEPT ![r] =
                     [status |-> 400, validation_errors |-> runs[r].result.errors]]
  /\ UNCHANGED <<wf, user_query, capabilities, sem, runs, chatlogs>>

\* lines 87-92: any other exception
RespondUnexpected(r) ==
  /\ Awaited(r)
  /\ runs[r].result.kind = "exception"
  /\ responses' = [responses EXCEPT ![r] =
                     [status |-> 500,
                      detail |-> <<"Workflow execution failed", runs[r].result.raised>>]]
  /\ UNCHANGED <<wf, user_query, capabilities, sem, runs, chatlogs>>

Next ==
  \/ \E r \in DOMAIN responses : RespondSuccess(r)
  \/ \E r \in DOMAIN responses : RespondFailure(r)
  \/ \E r \in DOMAIN responses : RespondValidationError(r)
  \/ \E r \in DOMAIN responses : RespondUnexpected(r)
  \/ \E r \in RunIds : Begin(r)
  \/ \E r \in RunIds : AcquirePermit(r)
  \/ \E r \in RunIds : AcquireTimesOut(r)
  \/ \E r \in RunIds : NodeReturns(r)
  \/ \E r \in RunIds : NodeReturnsNonDict(r)
  \/ \E r \in RunIds : NodeRaises(r)
  \/ \E r \in RunIds : FutureTimesOut(r)
  \/ \E r \in RunIds : WorkerJoined(r)

(***************************************************************************)
(* Initial states.                                                         *)
(***************************************************************************)
\* payloads a capability may return: keys from a small set, each value
\* tagged with the node that produced it
Payloads(nid) == {[k \in ks |-> nid] : ks \in {{"answer"}, {"query", "answer"}}}

\* a class whose constructor and run() may do anything
AnyCapability(nid) ==
  [ctor |-> {"ok", "raise"},
   kinds |-> {"return", "nondict", "raise", "hang"},
   payloads |-> Payloads(nid)]

\* well-structured definitions: distinct ids, registered types, edges
\* between existing nodes
GraphDefinition(n, types, es) ==
  MkWorkflow([i \in 1..n |-> MkNode(AllIds[i], types[i])],
             [i \in DOMAIN es |-> MkEdge(es[i][1], es[i][2])])

\* definitions with shape or structural defects
NodeShapes ==
  {[isDict |-> FALSE, id |-> NoId, type |-> BogusType, configIsDict |-> FALSE]}
  \cup [isDict : {TRUE}, id : {"a", "b", NoId},
        type : {"user_query", "output", BogusType, UnhashableType},
        configIsDict : BOOLEAN]

EdgeShapes ==
  {[isDict |-> FALSE, from |-> NoId, to |-> NoId]}
  \cup [isDict : {TRUE}, from : {"a", "b", GhostId, NoId}, to : {"a", "b", GhostId, NoId}]

WorkflowShapes ==
  ({[isDict |-> d, hasNodes |-> n, hasEdges |-> e, nodes |-> <<>>, edges |-> <<>>] :
      d \in BOOLEAN, n \in BOOLEAN, e \in BOOLEAN} \ {MkWorkflow(<<>>, <<>>)})
  \cup {[isDict |-> TRUE, hasNodes |-> FALSE, hasEdges |-> TRUE, nodes |-> <<>>, edges |-> <<e>>] :
          e \in EdgeShapes}
  \cup {[isDict |-> TRUE, hasNodes |-> TRUE, hasEdges |-> FALSE, nodes |-> <<n>>, edges |-> <<>>] :
          n \in NodeShapes}

\* the chain entry -> generation -> terminal
ChainDefinition ==
  MkWorkflow(<<MkNode("a", "user_query"), MkNode("b", "llm_engine"), MkNode("c", "output")>>,
             <<MkEdge("a", "b"), MkEdge("b", "c")>>)

\* a class that is constructed and returns one payload, always
SteadyCapability(nid) ==
  [ctor |-> {"ok"}, kinds |-> {"return"}, payloads |-> {[k \in {"answer"} |-> nid]}]

\* a generation class that returns, or does not return in time
SlowCapability(nid) ==
  [ctor |-> {"ok"}, kinds |-> {"return", "hang"}, payloads |-> {[k \in {"answer"} |-> nid]}]

AllNodeKeys == Range(AllIds) \cup {NoId}

\* one call of execute_workflow_safe on any definition within the bounds
InitSingle ==
  /\ \/ \E n \in 1..MaxNodes :
          \E types \in [1..n -> NODE_TYPES] :
            \E es \in SeqsUpTo(IdsUpTo(n) \X IdsUpTo(n), MaxEdges) :
              wf = GraphDefinition(n, types, es)
     \/ \E ns \in SeqsUpTo(NodeShapes, MaxBadNodes) :
          \E es \in SeqsUpTo(EdgeShapes, MaxBadEdges) :
            /\ wf = MkWorkflow(ns, es)
     \/ wf \in WorkflowShapes
  /\ capabilities = [nid \in AllNodeKeys |-> AnyCapability(nid)]
  /\ runs = [r \in {1} |-> IdleRun]
  /\ responses = [r \in {1} |-> NoResponse]

\* one more concurrent call than there are permits, all on the chain
InitPool ==
  /\ wf = ChainDefinition
  /\ capabilities = [nid \in AllNodeKeys |->
                       IF nid = "b" THEN SlowCapability(nid) ELSE SteadyCapability(nid)]
  /\ runs = [r \in 1..(LLM_CONCURRENCY_LIMIT + 1) |-> IdleRun]
  /\ responses = [r \in {1} |-> NoResponse]

\* the chain q (entry) -> k (retrieval) -> l (generation) -> o (terminal)
EndToEndDefinition ==
  MkWorkflow(<<MkNode("q", "user_query"), MkNode("k", "knowledge_base"),
               MkNode("l", "llm_engine"), MkNode("o", "output")>>,
             <<MkEdge("q", "k"), MkEdge("k", "l"), MkEdge("l", "o")>>)

\* a class that is constructed and returns a payload, always
SucceedingCapability(nid) ==
  [ctor |-> {"ok"}, kinds |-> {"return"}, payloads |-> Payloads(nid)]

\* one call on the chain with capabilities that all succeed
InitEndToEnd ==
  /\ wf = EndToEndDefinition
  /\ capabilities = [nid \in {"q", "k", "l", "o"} |-> SucceedingCapability(nid)]
  /\ runs = [r \in {1} |-> IdleRun]
  /\ responses = [r \in {1} |-> NoResponse]

\* an entry of an earlier call in a list the caller passes as trace
SuppliedEntry ==
  [node_id |-> "earlier", node_type |-> "output", started_at |-> "utcnow",
   status |-> "success", duration_seconds |-> "elapsed", output_keys |-> {"answer"}]

\* one call that is given a trace list holding an earlier entry, on a
\* definition that has a violation
InitSupplied ==
  /\ \/ \E n \in 1..MaxSuppliedNodes :
          \E types \in [1..n -> NODE_TYPES] :
            \E es \in SeqsUpTo(IdsUpTo(n) \X IdsUpTo(n), MaxSuppliedEdges) :
              wf = GraphDefinition(n, types, es)
     \/ wf \in WorkflowShapes
  /\ validate_shape(wf) # <<>> \/ validate_workflow(wf, 1) # <<>>
  /\ capabilities = [nid \in AllNodeKeys |-> AnyCapability(nid)]
  /\ runs = [r \in {1} |-> [IdleRun EXCEPT !.trace = <<SuppliedEntry>>]]
  /\ responses = [r \in {1} |-> NoResponse]

\* the hash seeds a process may have been started with
HashSeeds == {1, 2}

\* the same definition and query submitted twice, to processes that may
\* differ, with classes that are deterministic: each is constructed and
\* returns its one payload.  (With two calls the permit pool never runs
\* out, so it makes no difference whether the two calls share it.)
InitTwice ==
  /\ \E n \in 1..MaxTwiceNodes :
       \E types \in [1..n -> NODE_TYPES] :
         \E es \in SeqsUpTo(IdsUpTo(n) \X IdsUpTo(n), MaxTwiceEdges) :
           wf = GraphDefinition(n, types, es)
  /\ capabilities = [nid \in AllNodeKeys |-> SteadyCapability(nid)]
  /\ \E s1, s2 \in HashSeeds :
       runs = [r \in {1, 2} |-> [IdleRun EXCEPT !.hashseed = IF r = 1 THEN s1 ELSE s2]]
  /\ responses = [r \in {} |-> NoResponse]

Init ==
  /\ user_query = "What is X?"
  /\ sem = LLM_CONCURRENCY_LIMIT
  /\ chatlogs = <<>>
  /\ (InitSingle \/ InitPool \/ InitTwice \/ InitEndToEnd \/ InitSupplied)

Spec == Init /\ [][Next]_vars

(***************************************************************************)
(* Graph notions used to state the properties, defined on the node and     *)
(* edge lists alone.                                                       *)
(***************************************************************************)
\* the edges that are objects with two string endpoints, as pairs
EdgePairs(workflow) ==
  {<<workflow.edges[i].from, workflow.edges[i].to>> :
     i \in {k \in DOMAIN workflow.edges :
              /\ workflow.edges[k].isDict
              /\ workflow.edges[k].from # NoId
              /\ workflow.edges[k].to # NoId}}

RECURSIVE ForwardClosure(_, _)
ForwardClosure(S, E) ==
  LET T == S \cup {p[2] : p \in {q \in E : q[1] \in S}}
  IN  IF T = S THEN S ELSE ForwardClosure(T, E)

\* some edge u -> v lies on a directed cycle (u = v is a self-loop)
HasDirectedCycle(workflow) ==
  \E p \in EdgePairs(workflow) : p[1] \in ForwardClosure({p[2]}, EdgePairs(workflow))

NodeIdSet(workflow) ==
  {workflow.nodes[i].id : i \in {k \in DOMAIN workflow.nodes : workflow.nodes[k].isDict}}

IdsOfType(workflow, ty) ==
  {workflow.nodes[i].id :
     i \in {k \in DOMAIN workflow.nodes :
              workflow.nodes[k].isDict /\ workflow.nodes[k].type = ty}}

PositionsOfType(workflow, ty) ==
  {k \in DOMAIN workflow.nodes : workflow.nodes[k].isDict /\ workflow.nodes[k].type = ty}

UniqueStringIds(workflow) ==
  /\ \A i \in DOMAIN workflow.nodes : workflow.nodes[i].isDict /\ workflow.nodes[i].id # NoId
  /\ \A i, j \in DOMAIN workflow.nodes :
       workflow.nodes[i].id = workflow.nodes[j].id => i = j

RegisteredTypes(workflow) ==
  \A i \in DOMAIN workflow.nodes : workflow.nodes[i].type \in NODE_TYPES

EndpointsExist(workflow) ==
  \A i \in DOMAIN workflow.edges :
    /\ workflow.edges[i].isDict
    /\ workflow.edges[i].from \in NodeIdSet(workflow) \ {NoId}
    /\ workflow.edges[i].to \in NodeIdSet(workflow) \ {NoId}

HasLists(workflow) == workflow.isDict /\ workflow.hasNodes /\ workflow.hasEdges

\* what the shape phase and the structural phase ask for
WellStructured(workflow) ==
  /\ HasLists(workflow)
  /\ Len(workflow.nodes) <= MAX_NODES
  /\ Len(workflow.edges) <= MAX_EDGES
  /\ UniqueStringIds(workflow)
  /\ RegisteredTypes(workflow)
  /\ \A i \in DOMAIN workflow.nodes : workflow.nodes[i].configIsDict
  /\ EndpointsExist(workflow)

\* the nodes no path from the entry node in position k reaches
UnreachableFrom(workflow, k) ==
  NodeIdSet(workflow) \ ForwardClosure({workflow.nodes[k].id}, EdgePairs(workflow))

\* the number of items of an error list equal to item
CountItem(errors, item) == Cardinality({i \in DOMAIN errors : errors[i] = item})

HasItem(errors, item) == \E i \in DOMAIN errors : errors[i] = item

\* the calls that are past validation, and those that have returned or raised
Started(r) == runs[r].pc # "idle"

\* validate_workflow has returned without raising
ValidationPassed(st) ==
  /\ st.pc # "idle"
  /\ st.result.kind # "validation_error"
  /\ ~(st.result.kind = "exception" /\ st.result.raised = MsgUnhashable)
Ended(r) == runs[r].pc = "done"

InvokedNodes(st) == {st.invoked[i].node_id : i \in DOMAIN st.invoked}

(***************************************************************************)
(* Properties of the execution engine.                                     *)
(***************************************************************************)
\* the entries of positions 1..i of the order, the last one with `last`
TraceUpTo(st, i, last) ==
  /\ Len(st.trace) = i
  /\ \A k \in 1..i :
       /\ st.trace[k].node_id = st.topo[k]
       /\ st.trace[k].node_type = NodeType(wf, st.topo[k])
       /\ st.trace[k].status = IF k < i THEN "success" ELSE last

\* the call ended because the node at its position failed: its constructor
\* raised, or its invocation failed
EndedByNodeFailure(st) ==
  /\ st.pc = "done"
  /\ st.result.kind \in {"failure", "exception"}
  /\ st.idx \in 1..Len(st.topo)

ReturnedFailureAtPosition(st) ==
  /\ st.result.kind = "failure"
  /\ st.result.node_id = st.topo[st.idx]
  /\ st.result.node_type = NodeType(wf, st.topo[st.idx])
  /\ st.created = SubSeq(st.topo, 1, st.idx)
  /\ InvokedNodes(st) \subseteq Range(SubSeq(st.topo, 1, st.idx))
  /\ TraceUpTo(st, st.idx, "error")

\* C1: when the node at position i of the scheduler order is the first to
\* fail, the call returns a Failure carrying that node's id and type, no
\* node at a later position is instantiated or invoked, and the trace is
\* exactly the entries of positions 0..i, the first i with status success
\* and the last with status error.
C1_FirstFailureHalts ==
  \A r \in RunIds : EndedByNodeFailure(runs[r]) => ReturnedFailureAtPosition(runs[r])

\* The same statement for the failures raised inside _safe_run_node (the
\* permit wait, the timeout, the capability raising, a non-dict output):
\* these are caught by lines 166-178.
FailFastOnInvocationFailure ==
  \A r \in RunIds :
    (Ended(r) /\ runs[r].result.kind = "failure") => ReturnedFailureAtPosition(runs[r])

\* the calls whose rate-limited capability is running, the abandoned
\* (timed out) work included
LLMRunning ==
  {r \in RunIds : /\ runs[r].pc \in {"call", "join"}
                  /\ IsLLM(wf, CurrentNode(runs[r]))}

WaitingForPermit == {r \in RunIds : runs[r].pc = "acquire"}

\* C2: at most LLM_CONCURRENCY_LIMIT invocations of the rate-limited
\* capability are running in any state, counting work still running after
\* its node timed out; while that many are running, a further invocation
\* has not started and cannot take a permit (it waits, or fails when its
\* wait bound elapses).
C2_AtMostKRunning ==
  /\ Cardinality(LLMRunning) <= LLM_CONCURRENCY_LIMIT
  /\ \A r \in WaitingForPermit :
       /\ CurrentNode(runs[r]) \notin InvokedNodes(runs[r])
       /\ Cardinality(LLMRunning) = LLM_CONCURRENCY_LIMIT => ~CanAcquire(sem)

C2_Witness ==
  /\ Cardinality(LLMRunning) = LLM_CONCURRENCY_LIMIT
  /\ WaitingForPermit # {}
  /\ \E r \in LLMRunning : runs[r].pc = "join"

\* C3: a permit taken by _safe_run_node is given back exactly once when the
\* invocation ends, however it ends: the available permits plus the
\* permits of the invocations in flight are LLM_CONCURRENCY_LIMIT, the
\* available count never exceeds it, and it is the limit again when no
\* rate-limited invocation is in flight.
C3_PermitsConserved ==
  /\ sem + Cardinality(LLMRunning) = LLM_CONCURRENCY_LIMIT
  /\ sem <= LLM_CONCURRENCY_LIMIT
  /\ LLMRunning = {} => sem = LLM_CONCURRENCY_LIMIT

\* a rate-limited invocation of the call ended with message msg
LLMEndedWith(r, msg) ==
  /\ Ended(r)
  /\ runs[r].result.kind = "failure"
  /\ runs[r].result.node_type = "llm_engine"
  /\ runs[r].result.error_message = msg

C3_Witness ==
  /\ LLMRunning = {}
  /\ sem = LLM_CONCURRENCY_LIMIT
  /\ \E r \in RunIds : LLMEndedWith(r, MsgTimeout) \/ LLMEndedWith(r, MsgNotDict)
  /\ \E r \in RunIds : runs[r].result.kind = "success"

\* C4: when the wait for a permit ends with none available, the node fails
\* with the resource-exhaustion error: the step leaves the permit count as
\* it was, the capability has not been invoked, and the call returns a
\* Failure naming that node, its trace ending with the error entry.
C4_PermitWaitFails ==
  [][\A r \in RunIds :
       (runs[r].pc = "acquire" /\ ~CanAcquire(sem) /\ runs'[r] # runs[r])
         => /\ sem' = sem
            /\ runs'[r].pc = "done"
            /\ runs'[r].result.kind = "failure"
            /\ runs'[r].result.error_message = MsgSemaphore
            /\ runs'[r].result.node_id = CurrentNode(runs[r])
            /\ runs'[r].invoked = runs[r].invoked
            /\ CurrentNode(runs[r]) \notin InvokedNodes(runs'[r])
            /\ TraceUpTo(runs'[r], runs[r].idx, "error")
            /\ runs'[r].trace[runs[r].idx].error = MsgSemaphore]_vars

C4_Witness ==
  \E r \in RunIds :
    /\ LLMEndedWith(r, MsgSemaphore)
    /\ sem = 0
    /\ Cardinality(LLMRunning) = LLM_CONCURRENCY_LIMIT

\* the per-node timeout of the call's current node has elapsed
TimeoutElapsed(st) ==
  \/ st.pc = "join"
  \/ st.pc = "done" /\ st.result.kind = "failure" /\ st.result.error_message = MsgTimeout

\* C5: once the per-node timeout has elapsed the Engine no longer waits for
\* the capability: the call has returned the timeout Failure for that node,
\* whether or not the abandoned work is still running.
C5_TimeoutReturns ==
  \A r \in RunIds :
    TimeoutElapsed(runs[r])
      => /\ runs[r].pc = "done"
         /\ runs[r].result.kind = "failure"
         /\ runs[r].result.error_message = MsgTimeout
         /\ runs[r].result.node_id = CurrentNode(runs[r])

(***************************************************************************)
(* Properties of validation.                                               *)
(***************************************************************************)
\* the trace holds nothing but what the caller passed in
NothingDispatched(st) ==
  /\ st.created = <<>>
  /\ st.invoked = <<>>
  /\ \A i \in DOMAIN st.trace : st.trace[i] = SuppliedEntry
  /\ st.topo = <<>>

RejectedWithCycle(st) ==
  /\ st.pc = "done"
  /\ st.result.kind = "validation_error"
  /\ HasItem(st.result.errors, CycleError)
  /\ NothingDispatched(st)

\* C6 (as claimed): for every definition whose edges contain a directed
\* cycle, a self-loop included, validation fails with an error list that
\* contains the cycle error and the Engine dispatches no node.
C6_EveryCycleReported ==
  \A r \in RunIds :
    (Started(r) /\ HasDirectedCycle(wf)) => RejectedWithCycle(runs[r])

\* C6 (amended): for every definition that passes the shape and structural
\* phases and whose edges contain a directed cycle, a self-loop included,
\* validation fails with an error list that contains the cycle error and
\* the Engine dispatches no node.
\* And for every definition whose edges contain a directed cycle, validation
\* fails and the Engine dispatches no node.
C6_CycleReportedWhenStructured ==
  \A r \in RunIds :
    /\ (Started(r) /\ WellStructured(wf) /\ HasDirectedCycle(wf))
         => RejectedWithCycle(runs[r])
    /\ (Started(r) /\ HasDirectedCycle(wf))
         => /\ runs[r].pc = "done"
            /\ ~ValidationPassed(runs[r])
            /\ NothingDispatched(runs[r])

C6_Witness ==
  \E r \in RunIds :
    /\ Started(r)
    /\ WellStructured(wf)
    /\ HasDirectedCycle(wf)
    /\ \A p \in EdgePairs(wf) : p[1] # p[2]
    /\ Len(runs[r].result.errors) = 1

\* every node is reached from the one entry node
AllReachableFromEntry(workflow) ==
  \A k \in PositionsOfType(workflow, "user_query") : UnreachableFrom(workflow, k) = {}

\* the conditions the claim lists
ListedConditions(workflow) ==
  /\ HasLists(workflow)
  /\ UniqueStringIds(workflow)
  /\ RegisteredTypes(workflow)
  /\ EndpointsExist(workflow)
  /\ ~HasDirectedCycle(workflow)
  /\ Cardinality(PositionsOfType(workflow, "user_query")) = 1
  /\ Cardinality(PositionsOfType(workflow, "output")) >= 1
  /\ AllReachableFromEntry(workflow)

\* C7 (as claimed): a definition with unique non-empty string ids,
\* registered types, edges between existing nodes, no directed cycle,
\* exactly one user_query node, at least one output node and every node
\* reachable from the entry node passes validation with zero errors.
C7_ListedConditionsSuffice ==
  \A r \in RunIds :
    (Started(r) /\ ListedConditions(wf)) => runs[r].result.kind # "validation_error"

\* C7 (amended): such a definition passes validation with zero errors
\* provided also that every node's config is an object and that it has at
\* most MAX_NODES nodes and MAX_EDGES edges.
C7_WellFormedPasses ==
  \A r \in RunIds :
    (Started(r) /\ ListedConditions(wf) /\ WellStructured(wf))
      => /\ runs[r].result.kind # "validation_error"
         /\ validate_workflow(wf, runs[r].hashseed) = <<>>

C7_Witness ==
  \E r \in RunIds :
    /\ Started(r)
    /\ ListedConditions(wf)
    /\ WellStructured(wf)
    /\ Len(wf.nodes) >= 3
    /\ Len(wf.edges) >= 3
    /\ runs[r].result.kind = "success"

\* C8: whenever validation succeeds the definition has unique node ids,
\* edges whose endpoints are existing node ids, no directed cycle, exactly
\* one user_query node, at least one output node, and every node reachable
\* from the user_query node.
C8_ValidatedMeansInvariants ==
  \A r \in RunIds :
    ValidationPassed(runs[r])
      => /\ UniqueStringIds(wf)
         /\ EndpointsExist(wf)
         /\ ~HasDirectedCycle(wf)
         /\ Cardinality(PositionsOfType(wf, "user_query")) = 1
         /\ Cardinality(PositionsOfType(wf, "output")) >= 1
         /\ AllReachableFromEntry(wf)

C8_Witness ==
  \E r \in RunIds :
    /\ ValidationPassed(runs[r])
    /\ Len(wf.nodes) >= 3
    /\ Len(wf.edges) >= 3
    /\ Cardinality(PositionsOfType(wf, "output")) >= 2

\* the position of the first entry-type node of the node list
FirstEntryPosition(workflow) ==
  CHOOSE k \in PositionsOfType(workflow, "user_query") :
    \A j \in PositionsOfType(workflow, "user_query") : k <= j

ConnectivityItems(errors) ==
  {i \in DOMAIN errors : errors[i].field = <<"connectivity">>}

\* C9: for a structurally valid definition with two user_query nodes the
\* error list holds exactly one item for the entry count, and one item for
\* each other graph-phase violation present: no output node, nodes not
\* reachable from the (first) entry node, a cycle; and nothing else.
C9_GraphErrorsAggregated ==
  \A r \in RunIds :
    (Started(r) /\ WellStructured(wf)
       /\ Cardinality(PositionsOfType(wf, "user_query")) = 2)
      => /\ runs[r].result.kind = "validation_error"
         /\ LET errors == runs[r].result.errors
                noOutput == PositionsOfType(wf, "output") = {}
                unreachable == UnreachableFrom(wf, FirstEntryPosition(wf))
                cyclic == HasDirectedCycle(wf)
                Num(b) == IF b THEN 1 ELSE 0
            IN  /\ CountItem(errors, UserQueryCountError) = 1
                /\ CountItem(errors, OutputCountError) = Num(noOutput)
                /\ Cardinality(ConnectivityItems(errors)) = Num(unreachable # {})
                /\ \A i \in ConnectivityItems(errors) :
                     errors[i] = UnreachableError(unreachable, runs[r].hashseed)
                /\ CountItem(errors, CycleError) = Num(cyclic)
                /\ Len(errors) = 1 + Num(noOutput) + Num(unreachable # {}) + Num(cyclic)

C9_Witness ==
  \E r \in RunIds :
    /\ Started(r)
    /\ WellStructured(wf)
    /\ Cardinality(PositionsOfType(wf, "user_query")) = 2
    /\ Len(runs[r].result.errors) = 4

(***************************************************************************)
(* Properties of input assembly.                                           *)
(***************************************************************************)
\* the positions in the edge list of the edges into nid
EdgesInto(workflow, nid) == {i \in DOMAIN workflow.edges : workflow.edges[i].to = nid}

\* the edge into nid that is last in the edge list among those whose source
\* has recorded an output with key k
LastEdgeSupplying(workflow, nid, context_map, k) ==
  CHOOSE i \in EdgesInto(workflow, nid) :
    /\ k \in DOMAIN context_map[workflow.edges[i].from]
    /\ \A j \in EdgesInto(workflow, nid) :
         k \in DOMAIN context_map[workflow.edges[j].from] => j <= i

MergedLastEdgeWins(workflow, st, nid, inputs) ==
  LET preds == {workflow.edges[i].from : i \in EdgesInto(workflow, nid)}
  IN  /\ preds \subseteq DOMAIN st.context_map
      /\ DOMAIN inputs = UNION {DOMAIN st.context_map[p] : p \in preds}
      /\ \A k \in DOMAIN inputs :
           inputs[k] =
             st.context_map[workflow.edges[LastEdgeSupplying(workflow, nid,
                                                             st.context_map, k)].from][k]

\* C10: the input of a node with predecessors is the key-by-key merge of
\* its direct predecessors' recorded outputs, and a key supplied by several
\* predecessors holds the value of the one whose edge into the node comes
\* later in the edge list.
C10_LaterEdgeWins ==
  \A r \in RunIds :
    \A i \in DOMAIN runs[r].invoked :
      LET inv == runs[r].invoked[i]
      IN  EdgesInto(wf, inv.node_id) # {}
            => MergedLastEdgeWins(wf, runs[r], inv.node_id, inv.inputs)

\* the position of nid in the order
PositionIn(topo, nid) == CHOOSE k \in DOMAIN topo : topo[k] = nid

\* two predecessors collide on "answer"; the one whose edge is later
\* in the edge list ran first, and its value is the one passed on
C10_Witness ==
  \E r \in RunIds :
    \E i \in DOMAIN runs[r].invoked :
      LET inv == runs[r].invoked[i]
          st == runs[r]
      IN  \E e1, e2 \in EdgesInto(wf, inv.node_id) :
            /\ e1 < e2
            /\ wf.edges[e1].from # wf.edges[e2].from
            /\ "answer" \in DOMAIN st.context_map[wf.edges[e1].from]
            /\ "answer" \in DOMAIN st.context_map[wf.edges[e2].from]
            /\ PositionIn(st.topo, wf.edges[e2].from) < PositionIn(st.topo, wf.edges[e1].from)
            /\ inv.inputs["answer"] = wf.edges[e2].from

(***************************************************************************)
(* Properties of the initial context and of the result.                    *)
(***************************************************************************)
\* {"query": user_query}
InitialContext == [k \in {"query"} |-> user_query]

\* C11: in every run of a validated definition the input passed to the
\* user_query node is exactly {query: initial query}; every other node has
\* predecessors and is passed the keys of their recorded outputs, never the
\* initial context.
C11_EntryReceivesQuery ==
  \A r \in RunIds :
    \A i \in DOMAIN runs[r].invoked :
      LET inv == runs[r].invoked[i]
          preds == {wf.edges[e].from : e \in EdgesInto(wf, inv.node_id)}
      IN  IF NodeType(wf, inv.node_id) = "user_query"
            THEN inv.inputs = InitialContext
            ELSE /\ preds # {}
                 /\ preds \subseteq DOMAIN runs[r].context_map
                 /\ DOMAIN inv.inputs = UNION {DOMAIN runs[r].context_map[p] : p \in preds}
                 /\ inv.inputs # InitialContext

\* the entry node was passed the query, and a successor of it a "query" key
\* that a predecessor's payload carried
C11_Witness ==
  \E r \in RunIds :
    /\ Len(runs[r].invoked) >= 2
    /\ NodeType(wf, runs[r].invoked[1].node_id) = "user_query"
    /\ runs[r].invoked[1].inputs = InitialContext
    /\ "query" \in DOMAIN runs[r].invoked[2].inputs

\* the output node that comes first in the scheduler order
FirstTerminalInOrder(st) ==
  LET ks == {k \in DOMAIN st.topo : NodeType(wf, st.topo[k]) = "output"}
  IN  st.topo[CHOOSE k \in ks : \A j \in ks : k <= j]

\* C12: when every node completes, the result returned is the recorded
\* output of the output node that comes first in scheduler order among the
\* output nodes.
C12_FirstTerminalInSchedulerOrder ==
  \A r \in RunIds :
    (Ended(r) /\ runs[r].result.kind = "success")
      => runs[r].result.result = runs[r].context_map[FirstTerminalInOrder(runs[r])]

(***************************************************************************)
(* Properties of the trace.                                                *)
(***************************************************************************)
\* the node ids of the entries of a trace
TraceIds(trace) == [k \in DOMAIN trace |-> trace[k].node_id]

\* the trace after a step holds the entries of the trace before it, at the
\* same positions (their status may have been filled in)
GrowsByAppending(before, after) ==
  /\ Len(after) >= Len(before)
  /\ \A k \in DOMAIN before :
       /\ after[k].node_id = before[k].node_id
       /\ after[k].node_type = before[k].node_type
       /\ after[k].started_at = before[k].started_at

\* the nodes the loop of line 128 has reached, in scheduler order
Attempted(st) ==
  SubSeq(st.topo, 1, IF st.idx <= Len(st.topo) THEN st.idx ELSE Len(st.topo))

\* the order holds every node id of the definition exactly once
OrdersEveryNode(st) ==
  /\ Len(st.topo) = Len(wf.nodes)
  /\ Range(st.topo) = NodeIdSet(wf)

\* C13: during a run the trace only grows by appending; its entries are in
\* scheduler order, one per attempted node; no entry is removed or moved;
\* and on a successful run the trace holds exactly one entry per node of
\* the definition, in scheduler order.
C13_TraceGrowsByAppending ==
  [][\A r \in RunIds :
       /\ GrowsByAppending(runs[r].trace, runs'[r].trace)
       /\ TraceIds(runs'[r].trace) = Attempted(runs'[r])
       /\ (runs'[r].result.kind = "success")
            => /\ TraceIds(runs'[r].trace) = runs'[r].topo
               /\ OrdersEveryNode(runs'[r])]_vars

\* The same statement with "attempted" read as "instantiated": it leaves out
\* the node whose constructor raised (line 135), for which no entry exists.
TraceOfInstantiatedNodes ==
  [][\A r \in RunIds :
       /\ GrowsByAppending(runs[r].trace, runs'[r].trace)
       /\ TraceIds(runs'[r].trace) = runs'[r].created
       /\ runs'[r].created = SubSeq(runs'[r].topo, 1, Len(runs'[r].created))
       /\ (runs'[r].result.kind = "success")
            => /\ TraceIds(runs'[r].trace) = runs'[r].topo
               /\ OrdersEveryNode(runs'[r])]_vars

(***************************************************************************)
(* Properties of the execution-time failures.                              *)
(***************************************************************************)
\* the messages of the four failure kinds: no permit within the wait bound,
\* timeout, the capability raising, an output that is no mapping
FailureMessages == {MsgSemaphore, MsgTimeout, MsgCapability, MsgNotDict}

TimesInvoked(st, nid) ==
  Cardinality({i \in DOMAIN st.invoked : st.invoked[i].node_id = nid})

\* a returned Failure names the node the run stopped at, its type and the
\* message, and the trace ends with that node's error entry
FailureSurfaced(st) ==
  (st.pc = "done" /\ st.result.kind = "failure")
    => /\ st.result.error_message \in FailureMessages
       /\ st.result.error = "Node execution error"
       /\ st.result.node_id = st.topo[st.idx]
       /\ st.result.node_type = NodeType(wf, st.topo[st.idx])
       /\ TraceUpTo(st, st.idx, "error")
       /\ st.trace[st.idx].error = st.result.error_message
       /\ st.created = SubSeq(st.topo, 1, st.idx)
       /\ TimesInvoked(st, st.topo[st.idx])
            = IF st.result.error_message = MsgSemaphore THEN 0 ELSE 1

\* C14: each of the four execution-time failure kinds at a node stops the
\* run at its first occurrence and is surfaced as a Failure carrying the
\* node's id, its type, the message and the partial trace; no node is
\* invoked a second time, and a run that has ended does nothing more.
C14_FailFastKinds ==
  [][\A r \in RunIds :
       /\ FailureSurfaced(runs'[r])
       /\ \A nid \in Range(runs'[r].topo) : TimesInvoked(runs'[r], nid) <= 1
       /\ (runs[r].pc = "join" /\ runs'[r] # runs[r])
            => /\ runs'[r].result.kind = "failure"
               /\ runs'[r].result.error_message = MsgTimeout
       /\ (runs[r].pc = "acquire" /\ runs'[r] # runs[r] /\ sem = 0)
            => /\ runs'[r].result.kind = "failure"
               /\ runs'[r].result.error_message = MsgSemaphore
       /\ runs[r].pc = "done" => runs'[r] = runs[r]]_vars

\* one call has failed for want of a permit, another by timing out
C14_Witness ==
  \E r1, r2 \in RunIds :
    /\ runs[r1].pc = "done" /\ runs[r1].result.kind = "failure"
    /\ runs[r1].result.error_message = MsgSemaphore
    /\ runs[r2].pc = "done" /\ runs[r2].result.kind = "failure"
    /\ runs[r2].result.error_message = MsgTimeout
    /\ Len(runs[r2].trace) = 2

(***************************************************************************)
(* Properties of the /run handler.                                         *)
(***************************************************************************)
\* C15: after a successful run the handler answers with the result and the
\* trace the Engine produced, whatever happens to the audit: creating,
\* adding, committing or refreshing the ChatLog may fail, no error response
\* is raised and the answer is the same.
C15_AuditNeverChangesResponse ==
  \A r \in DOMAIN responses :
    (runs[r].pc = "done" /\ runs[r].result.kind = "success" /\ responses[r] # NoResponse)
      => /\ responses[r].status = 200
         /\ responses[r].result = runs[r].result.result
         /\ responses[r].trace = runs[r].trace

\* the commit failed, no row was written, and the run's result was returned
C15_Witness ==
  \E r \in DOMAIN responses :
    /\ responses[r].status = 200
    /\ responses[r].audit = "commit_raises"
    /\ chatlogs = <<>>
    /\ Len(responses[r].trace) >= 3
    /\ responses[r].result = runs[r].result.result

(***************************************************************************)
(* Determinism.                                                            *)
(***************************************************************************)
\* every class is constructed and has one outcome, the return of one payload
DeterministicCapabilities ==
  \A nid \in DOMAIN capabilities :
    /\ capabilities[nid].ctor = {"ok"}
    /\ capabilities[nid].kinds = {"return"}
    /\ Cardinality(capabilities[nid].payloads) = 1

\* two calls on the same definition and query ended alike: the same error
\* list, or the same trace node ids and the same input for every node
SameOutcome(s1, s2) ==
  /\ (s1.result.kind = "validation_error") <=> (s2.result.kind = "validation_error")
  /\ s1.result.kind = "validation_error" => s1.result.errors = s2.result.errors
  /\ TraceIds(s1.trace) = TraceIds(s2.trace)
  /\ s1.invoked = s2.invoked

\* C16: two validations of the same definition return identical error
\* lists (same items, same messages, same order), and two runs of the same
\* definition and query against deterministic capabilities produce the same
\* sequence of trace node ids and the same merged input for every node.
C16_Deterministic ==
  \A r1, r2 \in RunIds :
    (Ended(r1) /\ Ended(r2) /\ DeterministicCapabilities)
      => SameOutcome(runs[r1], runs[r2])

\* The same statement for two calls served by one process (one hash seed).
DeterministicInOneProcess ==
  \A r1, r2 \in RunIds :
    (Ended(r1) /\ Ended(r2) /\ DeterministicCapabilities
       /\ runs[r1].hashseed = runs[r2].hashseed)
      => SameOutcome(runs[r1], runs[r2])

(***************************************************************************)
(* The end-to-end example.                                                 *)
(***************************************************************************)
\* the payload nid's capability returned in the run
ReturnedPayload(st, nid) ==
  st.returned[CHOOSE i \in DOMAIN st.returned : st.returned[i].node_id = nid].payload

FourSuccessEntries(st) ==
  /\ TraceIds(st.trace) = <<"q", "k", "l", "o">>
  /\ \A i \in DOMAIN st.trace : st.trace[i].status = "success"

\* C17 (as claimed): the run of the chain q -> k -> l -> o with capabilities
\* that all succeed returns a trace of four success entries in the order
\* q, k, l, o and a result equal to the payload o's capability returned,
\* with nothing added or removed.
C17_ResultIsTerminalPayload ==
  \A r \in RunIds :
    (wf = EndToEndDefinition /\ Ended(r))
      => /\ runs[r].result.kind = "success"
         /\ FourSuccessEntries(runs[r])
         /\ runs[r].result.result = ReturnedPayload(runs[r], "o")

\* C17 (amended): ... and a result equal to the payload o's capability
\* returned with the one key _exec_duration added by the Engine (holding
\* the duration measured for o), the payload's keys and values unchanged.
C17_ResultIsPayloadWithDuration ==
  \A r \in RunIds :
    (wf = EndToEndDefinition /\ Ended(r))
      => /\ runs[r].result.kind = "success"
         /\ FourSuccessEntries(runs[r])
         /\ LET payload == ReturnedPayload(runs[r], "o")
                result == runs[r].result.result
            IN  /\ DOMAIN result = DOMAIN payload \cup {"_exec_duration"}
                /\ \A k \in DOMAIN payload \ {"_exec_duration"} : result[k] = payload[k]
                /\ result["_exec_duration"] = "o"

C17_Witness ==
  \E r \in RunIds :
    /\ wf = EndToEndDefinition
    /\ Ended(r)
    /\ Len(runs[r].returned) = 4
    /\ DOMAIN ReturnedPayload(runs[r], "o") = {"query", "answer"}
    /\ DOMAIN runs[r].result.result = {"query", "answer", "_exec_duration"}

(***************************************************************************)
(* The phases of validation.  The violations of each phase are written     *)
(* here from the node list and the edge list position by position, without *)
(* the loops and the accumulated id set of the validator.                  *)
(***************************************************************************)
ShapeViolations(workflow) ==
  IF ~workflow.isDict
    THEN {ErrorItem(<<"workflow">>, <<"Workflow must be a JSON object">>)}
    ELSE {ErrorItem(<<"nodes">>, <<"Missing 'nodes' list">>) : x \in {1} \cap {IF workflow.hasNodes THEN 0 ELSE 1}}
         \cup {ErrorItem(<<"edges">>, <<"Missing 'edges' list">>) : x \in {1} \cap {IF workflow.hasEdges THEN 0 ELSE 1}}

NodeViolations(workflow, i) ==
  LET n == workflow.nodes[i]
      at == ToString(i - 1)
  IN  IF ~n.isDict
        THEN {ErrorItem(<<"nodes", at>>, <<"Node must be an object">>)}
        ELSE {ErrorItem(<<"nodes", at, "id">>, <<"Node must have a string 'id'">>) :
                x \in {j \in {i} : n.id = NoId}}
             \cup {ErrorItem(<<"nodes", at, "id">>, <<"Duplicate node id", n.id>>) :
                     x \in {j \in {i} : /\ n.id # NoId
                                         /\ \E k \in 1..(i - 1) : /\ workflow.nodes[k].isDict
                                                                  /\ workflow.nodes[k].id = n.id}}
             \cup {ErrorItem(<<"nodes", at, "type">>, <<"Invalid or missing node type", n.type>>) :
                     x \in {j \in {i} : n.type \notin NODE_TYPES}}
             \cup {ErrorItem(<<"nodes", at, "config">>, <<"Config must be an object">>) :
                     x \in {j \in {i} : ~n.configIsDict}}

EndpointViolations(workflow, i, which, v) ==
  {ErrorItem(<<"edges", ToString(i - 1), which>>, <<"Missing/invalid", which>>) :
     x \in {j \in {i} : v = NoId}}
  \cup {ErrorItem(<<"edges", ToString(i - 1), which>>, <<"Unknown node id", v>>) :
          x \in {j \in {i} : v # NoId /\ v \notin NodeIdSet(workflow) \ {NoId}}}

EdgeViolations(workflow, i) ==
  LET e == workflow.edges[i]
  IN  IF ~e.isDict
        THEN {ErrorItem(<<"edges", ToString(i - 1)>>, <<"Edge must be an object with 'from' and 'to'">>)}
        ELSE EndpointViolations(workflow, i, "from", e.from)
             \cup EndpointViolations(workflow, i, "to", e.to)

StructuralViolations(workflow) ==
  {ErrorItem(<<"nodes">>, <<"Too many nodes", ToString(MAX_NODES)>>) :
     x \in {j \in {1} : Len(workflow.nodes) > MAX_NODES}}
  \cup {ErrorItem(<<"edges">>, <<"Too many edges", ToString(MAX_EDGES)>>) :
          x \in {j \in {1} : Len(workflow.edges) > MAX_EDGES}}
  \cup UNION {NodeViolations(workflow, i) : i \in DOMAIN workflow.nodes}
  \cup UNION {EdgeViolations(workflow, i) : i \in DOMAIN workflow.edges}

GraphViolations(workflow, seed) ==
  {UserQueryCountError : x \in {j \in {1} : Cardinality(PositionsOfType(workflow, "user_query")) # 1}}
  \cup {OutputCountError : x \in {j \in {1} : PositionsOfType(workflow, "output") = {}}}
  \cup {UnreachableError(UnreachableFrom(workflow, FirstEntryPosition(workflow)), seed) :
          x \in {j \in {1} : /\ PositionsOfType(workflow, "user_query") # {}
                              /\ UnreachableFrom(workflow, FirstEntryPosition(workflow)) # {}}}
  \cup {CycleError : x \in {j \in {1} : HasDirectedCycle(workflow)}}

\* the violations of the first phase that finds any
FailedPhaseViolations(workflow, seed) ==
  IF ShapeViolations(workflow) # {} THEN ShapeViolations(workflow)
  ELSE IF StructuralViolations(workflow) # {} THEN StructuralViolations(workflow)
  ELSE GraphViolations(workflow, seed)

\* the phase an item of an error list comes from
PhaseOf(item) ==
  IF item.message[1] \in {"Workflow must be a JSON object", "Missing 'nodes' list",
                          "Missing 'edges' list"}
    THEN "shape"
    ELSE IF item.field[1] \in {"nodes", "edges"} THEN "structural" ELSE "graph"

OnePhase(errors) ==
  \A i, j \in DOMAIN errors : PhaseOf(errors[i]) = PhaseOf(errors[j])

CollectsFailedPhase(st, workflow) ==
  /\ st.result.kind = "validation_error"
  /\ OnePhase(st.result.errors)
  /\ Range(st.result.errors) = FailedPhaseViolations(workflow, st.hashseed)
  /\ Len(st.result.errors) = Cardinality(FailedPhaseViolations(workflow, st.hashseed))

\* C18: when some phase of validation finds a violation, the call raises a
\* validation error whose list holds the violations of the first failing
\* phase, every one of them once, and no item of any other phase.
C18_PhasesGatedAndCollected ==
  \A r \in RunIds :
    (Started(r) /\ FailedPhaseViolations(wf, runs[r].hashseed) # {})
      => CollectsFailedPhase(runs[r], wf)

\* the same for the definitions whose node types are strings (or absent)
PhasesGatedWhenTypesHashable ==
  \A r \in RunIds :
    (Started(r) /\ FailedPhaseViolations(wf, runs[r].hashseed) # {}
       /\ ~RaisesTypeError(wf))
      => CollectsFailedPhase(runs[r], wf)

\* a list of several structural items returned for a definition that has
\* shape-valid lists
PhasesGatedReached ==
  \E r \in RunIds :
    /\ Started(r)
    /\ runs[r].result.kind = "validation_error"
    /\ Len(runs[r].result.errors) >= 4
    /\ PhaseOf(runs[r].result.errors[1]) = "structural"

(***************************************************************************)
(* The order the Engine computes.                                          *)
(***************************************************************************)
\* the positions of nid in a sequence of ids
PositionsIn(seq, nid) == {k \in DOMAIN seq : seq[k] = nid}

\* u has a success entry in the trace before the entry of v
SucceededBefore(trace, u, v) ==
  \E i, j \in DOMAIN trace :
    /\ i < j
    /\ trace[i].node_id = u /\ trace[i].status = "success"
    /\ trace[j].node_id = v

\* C19: for a validated definition the order the Engine computes holds
\* every node id exactly once and, for every edge u -> v, u before v; a
\* node is instantiated only after each of its direct predecessors has
\* completed.
C19_OrderIsTopological ==
  \A r \in RunIds :
    ValidationPassed(runs[r])
      => LET topo == runs[r].topo
         IN  /\ \A nid \in NodeIdSet(wf) : Cardinality(PositionsIn(topo, nid)) = 1
             /\ Range(topo) = NodeIdSet(wf)
             /\ \A p \in EdgePairs(wf) :
                  \A i \in PositionsIn(topo, p[1]), j \in PositionsIn(topo, p[2]) : i < j
             /\ \A p \in EdgePairs(wf) :
                  p[2] \in Range(runs[r].created)
                    => SucceededBefore(runs[r].trace, p[1], p[2])

\* a validated definition whose order differs from its node list, run until
\* a node with two direct predecessors is instantiated
C19_Witness ==
  \E r \in RunIds :
    /\ ValidationPassed(runs[r])
    /\ runs[r].topo # MetaIds(wf)
    /\ \E v \in Range(runs[r].created) :
         Cardinality({p \in EdgePairs(wf) : p[2] = v}) = 2

(***************************************************************************)
(* The FIFO order.  A node with no incoming edge is ready from the start,  *)
(* in its node-list position; any other node becomes ready when the last   *)
(* of its incoming edges is visited, that is at the dequeue of the edge's  *)
(* source, in the edge's edge-list position.                               *)
(***************************************************************************)
NodeIndex(workflow, nid) ==
  CHOOSE k \in DOMAIN workflow.nodes : workflow.nodes[k].id = nid

LexLess(a, b) == a[1] < b[1] \/ (a[1] = b[1] /\ a[2] < b[2])

\* <<the position in topo of the node whose dequeue makes nid ready (0 at
\* the start), the position in the node list or in the edge list>>
ReadyAt(workflow, topo, nid) ==
  LET visits == {<<PositionIn(topo, workflow.edges[i].from), i>> :
                   i \in EdgesInto(workflow, nid)}
  IN  IF visits = {}
        THEN <<0, NodeIndex(workflow, nid)>>
        ELSE CHOOSE last \in visits : \A v \in visits : v = last \/ LexLess(v, last)

FIFOKahnOrder(workflow, topo) ==
  /\ Range(topo) \subseteq NodeIdSet(workflow)
  /\ \A k \in DOMAIN topo :
       \A i \in EdgesInto(workflow, topo[k]) :
         \E j \in 1..(k - 1) : topo[j] = workflow.edges[i].from
  /\ \A nid \in NodeIdSet(workflow) :
       (\A i \in EdgesInto(workflow, nid) : workflow.edges[i].from \in Range(topo))
         => nid \in Range(topo)
  /\ \A i, j \in DOMAIN topo :
       i < j => LexLess(ReadyAt(workflow, topo, topo[i]), ReadyAt(workflow, topo, topo[j]))

\* C20: for every structurally valid definition the order the Engine's
\* scheduler computes is the FIFO Kahn order (nodes without incoming edges
\* first, in node-list order; every other node in the order in which the
\* in-degrees reach zero, successors visited in edge-list order), and it is
\* the order detect_cycles_and_toposort computes; a validated call runs in
\* that order.
C20_SameFIFOOrder ==
  WellStructured(wf)
    => /\ FIFOKahnOrder(wf, ExecTopo(wf))
       /\ ExecTopo(wf) = detect_cycles_and_toposort(wf).topo
       /\ \A r \in RunIds :
            ValidationPassed(runs[r])
              => runs[r].topo = detect_cycles_and_toposort(wf).topo

\* a validated call in which two nodes became ready at the same dequeue and
\* run in edge-list order, against their node-list order
C20_Witness ==
  \E r \in RunIds :
    /\ ValidationPassed(runs[r])
    /\ Ended(r)
    /\ runs[r].result.kind = "success"
    /\ \E i, j \in DOMAIN runs[r].topo :
         /\ i < j
         /\ ReadyAt(wf, runs[r].topo, runs[r].topo[i])[1] >= 1
         /\ ReadyAt(wf, runs[r].topo, runs[r].topo[i])[1]
              = ReadyAt(wf, runs[r].topo, runs[r].topo[j])[1]
         /\ NodeIndex(wf, runs[r].topo[i]) > NodeIndex(wf, runs[r].topo[j])

(***************************************************************************)
(* The fields of the trace entries of a call that has returned.            *)
(***************************************************************************)
HasOutcomeFields(entry) ==
  /\ "started_at" \in DOMAIN entry
  /\ "status" \in DOMAIN entry
  /\ entry.status \in {"success", "error"}
  /\ entry.status = "success" => "output_keys" \in DOMAIN entry
  /\ entry.status = "error" => "error" \in DOMAIN entry

Returned(r) == Ended(r) /\ runs[r].result.kind \in {"success", "failure"}

\* C21: when a call returns, every entry of its trace has a start time, a
\* status of success or error and a duration, with the output's key set on
\* success and the error message on error: the failing entry included.
C21_EntriesComplete ==
  \A r \in RunIds :
    Returned(r)
      => \A i \in DOMAIN runs[r].trace :
           /\ HasOutcomeFields(runs[r].trace[i])
           /\ "duration_seconds" \in DOMAIN runs[r].trace[i]

\* every entry has the other fields, and every success entry the duration
EntriesCompleteButErrorDuration ==
  \A r \in RunIds :
    Returned(r)
      => \A i \in DOMAIN runs[r].trace :
           /\ HasOutcomeFields(runs[r].trace[i])
           /\ "duration_seconds" \in DOMAIN runs[r].trace[i]
                <=> runs[r].trace[i].status = "success"

(***************************************************************************)
(* Sequential execution within one call.  An invocation starts when        *)
(* run(inputs) is submitted and has finished when the loop has written a   *)
(* status into the node's trace entry (the entry of a node that got no     *)
(* permit was never invoked, nor were the entries the caller passed in).   *)
(***************************************************************************)
FinishedInvocations(st) ==
  Cardinality({i \in DOMAIN st.trace :
                 /\ \E k \in DOMAIN st.invoked : st.invoked[k].node_id = st.trace[i].node_id
                 /\ "status" \in DOMAIN st.trace[i]
                 /\ ~(st.trace[i].status = "error" /\ st.trace[i].error = MsgSemaphore)})

RunningInvocations(st) == Len(st.invoked) - FinishedInvocations(st)

\* C22: in every state at most one invocation of a call is running, the
\* invocations of a call are started in scheduler order, and each starts
\* only when every earlier one has finished.
C22_SequentialWithinRun ==
  \A r \in RunIds :
    LET st == runs[r]
    IN  /\ RunningInvocations(st) \in {0, 1}
        /\ RunningInvocations(st) = 1 <=> st.pc \in {"call", "join"}
        /\ \A k \in DOMAIN st.invoked :
             /\ st.invoked[k].node_id = st.topo[k]
             /\ k < Len(st.invoked) => "status" \in DOMAIN st.trace[k]

\* the third invocation of a call is running, the first two have finished
C22_Witness ==
  \E r \in RunIds :
    /\ Len(runs[r].invoked) = 3
    /\ runs[r].pc = "call"
    /\ FinishedInvocations(runs[r]) = 2

(***************************************************************************)
(* The allowed types and the registered types.                             *)
(***************************************************************************)
\* C23: NODE_TYPES equals the key set of COMPONENT_MAP, so in a call whose
\* validation passed every node's type has a class and the loop skips no
\* node: the nodes instantiated are a prefix of the scheduler order, the
\* whole order when the call returns success.
C23_AllowedTypesAreRegistered ==
  /\ NODE_TYPES = COMPONENT_MAP_KEYS
  /\ \A r \in RunIds :
       ValidationPassed(runs[r])
         => /\ \A k \in DOMAIN runs[r].topo :
                 NodeType(wf, runs[r].topo[k]) \in COMPONENT_MAP_KEYS
            /\ Len(runs[r].created) <= Len(runs[r].topo)
            /\ \A k \in DOMAIN runs[r].created : runs[r].created[k] = runs[r].topo[k]
            /\ runs[r].result.kind = "success"
                 => /\ runs[r].created = runs[r].topo
                    /\ TraceIds(runs[r].trace) = runs[r].topo

\* a call on a definition with all four types that returned success
C23_Witness ==
  \E r \in RunIds :
    /\ ValidationPassed(runs[r])
    /\ runs[r].result.kind = "success"
    /\ {NodeType(wf, runs[r].created[k]) : k \in DOMAIN runs[r].created} = NODE_TYPES

(***************************************************************************)
(* What a call on a validated definition ends with.                        *)
(***************************************************************************)
\* C24: a call whose validation passed ends with a Success or a Failure and
\* lets no exception escape; when it has stopped at a node, that node has
\* an entry in the trace and the Failure names it.
C24_NoExceptionEscapes ==
  \A r \in RunIds :
    (ValidationPassed(runs[r]) /\ Ended(r))
      => /\ runs[r].result.kind \in {"success", "failure"}
         /\ runs[r].result.kind = "failure"
              => /\ runs[r].result.node_id = CurrentNode(runs[r])
                 /\ runs[r].trace # <<>>
                 /\ runs[r].trace[Len(runs[r].trace)].node_id = CurrentNode(runs[r])

\* the same for the calls in which every constructor call returns
NoEscapeWhenConstructed ==
  \A r \in RunIds :
    (ValidationPassed(runs[r]) /\ Ended(r)
       /\ ~(runs[r].result.kind = "exception" /\ runs[r].result.raised = MsgConstructor))
      => /\ runs[r].result.kind \in {"success", "failure"}
         /\ runs[r].result.kind = "failure"
              => /\ runs[r].result.node_id = CurrentNode(runs[r])
                 /\ runs[r].trace # <<>>
                 /\ runs[r].trace[Len(runs[r].trace)].node_id = CurrentNode(runs[r])

(***************************************************************************)
(* Validation before execution.                                            *)
(***************************************************************************)
\* C25: when the definition has a violation that validate_workflow reports,
\* the call ends at once with the validation error: no node is
\* instantiated or invoked, no permit is taken and the trace list is as
\* the caller passed it.
C25_NothingRunsUnvalidated ==
  [][\A r \in RunIds :
       (/\ runs[r].pc = "idle"
        /\ runs'[r].pc # "idle"
        /\ FailedPhaseViolations(wf, runs[r].hashseed) # {}
        /\ ~RaisesTypeError(wf))
         => /\ runs'[r].pc = "done"
            /\ runs'[r].result.kind = "validation_error"
            /\ runs'[r].created = <<>>
            /\ runs'[r].invoked = <<>>
            /\ runs'[r].trace = runs[r].trace
            /\ sem' = sem]_vars

\* a call given a non-empty trace list has raised a validation error for a
\* well-structured definition with a generation node
C25_Witness ==
  \E r \in RunIds :
    /\ runs[r].result.kind = "validation_error"
    /\ runs[r].trace = <<SuppliedEntry>>
    /\ WellStructured(wf)
    /\ PositionsOfType(wf, "llm_engine") # {}

(***************************************************************************)
(* The entry node of a validated definition.                               *)
(***************************************************************************)
\* C26: in a definition that passed validation the user_query node is the
\* only node without incoming edges (every other node has a predecessor)
\* and the first node of the scheduler order; it is the first entry of the
\* trace of every call that returns.
C26_EntryIsOnlyRoot ==
  \A r \in RunIds :
    ValidationPassed(runs[r])
      => /\ Cardinality(IdsOfType(wf, "user_query")) = 1
         /\ {nid \in NodeIdSet(wf) : EdgesInto(wf, nid) = {}} = IdsOfType(wf, "user_query")
         /\ runs[r].topo # <<>>
         /\ runs[r].topo[1] \in IdsOfType(wf, "user_query")
         /\ runs[r].trace # <<>> => runs[r].trace[1].node_id \in IdsOfType(wf, "user_query")
         /\ Returned(r) => runs[r].trace # <<>>

\* a call that returned on a validated definition of three nodes whose
\* entry node is the last of the node list
C26_Witness ==
  \E r \in RunIds :
    /\ ValidationPassed(runs[r])
    /\ Returned(r)
    /\ Len(wf.nodes) = 3
    /\ wf.nodes[3].type = "user_query"
    /\ Len(runs[r].trace) >= 2

(***************************************************************************)
(* The execution context.                                                  *)
(***************************************************************************)
HasReturned(st, nid) == \E i \in DOMAIN st.returned : st.returned[i].node_id = nid

HasSuccessEntry(st, nid) ==
  \E i \in DOMAIN st.trace : st.trace[i].node_id = nid /\ st.trace[i].status = "success"

\* C27: in a call whose validation passed, every node that has been
\* instantiated (its input assembled) finds, for each direct predecessor,
\* the output recorded for the predecessor's successful invocation in the
\* context, so no lookup falls back to the empty mapping; and the context
\* holds an output only for nodes whose invocation succeeded (besides the
\* initial context stored under the entry node).
C27_ContextHoldsPredecessors ==
  \A r \in RunIds :
    ValidationPassed(runs[r])
      => LET st == runs[r]
         IN  /\ \A k \in DOMAIN st.created :
                  \A i \in EdgesInto(wf, st.created[k]) :
                    LET u == wf.edges[i].from
                    IN  /\ u \in DOMAIN st.context_map
                        /\ HasReturned(st, u)
                        /\ st.context_map[u] = RecordedOutput(ReturnedPayload(st, u), u)
                        /\ st.context_map[u] # EmptyDict
                        /\ SucceededBefore(st.trace, u, st.created[k])
             /\ \A u \in DOMAIN st.context_map :
                  IF HasReturned(st, u)
                    THEN /\ HasSuccessEntry(st, u)
                         /\ st.context_map[u] = RecordedOutput(ReturnedPayload(st, u), u)
                    ELSE /\ u \in IdsOfType(wf, "user_query")
                         /\ st.context_map[u] = InitialContext

\* a call has failed at its third node, which has two predecessors: their
\* outputs are in the context, the failed node's is not
C27_Witness ==
  \E r \in RunIds :
    /\ ValidationPassed(runs[r])
    /\ runs[r].result.kind = "failure"
    /\ Len(runs[r].created) = 3
    /\ Cardinality({wf.edges[i].from : i \in EdgesInto(wf, CurrentNode(runs[r]))}) = 2
    /\ CurrentNode(runs[r]) \notin DOMAIN runs[r].context_map

====
